---- MODULE Spec2Model ----
(***************************************************************************)
(* A model of generate_slippers.py: the pipeline that resolves the         *)
(* selected reflexology zones, samples every selected annotation polygon   *)
(* on a regular grid, casts one vertical ray per contained sample point,   *)
(* places one bump per ray hit, computes the metrics, exports the combined *)
(* mesh in two formats and prints the report; and of app.py, the web      *)
(* front end that validates a request and runs the pipeline as a           *)
(* subprocess (specification AppSpec).                                     *)
(*                                                                         *)
(* Units.  Image space is in pixels.  The 3D frame is in hundredths of a   *)
(* millimetre, so that the 0.01 mm bump offset is the integer 1.           *)
(* Distances are kept squared (the square root is monotone, so minima and  *)
(* the test 0 < distance are unchanged).  A percentage is the rational     *)
(* <<numerator, denominator>>.                                             *)
(***************************************************************************)
EXTENDS Integers, Sequences, FiniteSets, TLC

VARIABLES
    zones,                  \* args.zones, as typed on the command line
    annotations,            \* coco_data['annotations']
    mesh,                   \* the sole model loaded from the input STL
    pc,                     \* position of the script
    exit_code,              \* None while running, 0 or 1 once terminated
    stderr,                 \* warnings and errors printed so far
    selected_zones,
    zone_name_to_ids,
    selected_ids,
    ann_idx,                \* position of the annotation loop
    zone_name,
    path,
    grid_x,                 \* np.arange(min_x, max_x, step)
    grid_y,                 \* np.arange(min_y, max_y, step)
    ix,
    iy,
    valid_points,
    spikes,
    spike_count,
    ray_casting_attempts,
    ray_casting_successes,
    positional_errors,
    bump_locations,
    zone_bumps,
    zone_paths,
    success_rate,
    bump_spacing,
    avg_spacing,
    placement_accuracy,
    files,                  \* output artifacts present on disk
    report,                 \* the metrics report printed, or None
    candidates,             \* history: grid points visited in the current annotation
    ann_log                 \* history: one record per annotation that was sampled

\* The state of app.py, the web front end that runs the pipeline as a
\* subprocess.
VARIABLES
    app_pc,                         \* where the server is
    VALID_INTERNAL_ZONE_KEYS_LEFT,  \* None, or the left foot's whitelist
    VALID_INTERNAL_ZONE_KEYS_RIGHT, \* None, or the right foot's whitelist
    input_stls,                     \* feet whose input STL file exists
    output_files,                   \* feet whose expected output file exists
    selected_html_values,           \* request.form.getlist('areas')
    selected_foot,                  \* request.form.get('foot')
    selected_size,                  \* request.form.get('size')
    zones_to_process_internal_keys,
    unknown_html_values,
    command,                        \* the command line built, or None
    script_result,                  \* how subprocess.run ended, "none" before it
    response                        \* the response returned, or None

appVars == <<app_pc, VALID_INTERNAL_ZONE_KEYS_LEFT,
             VALID_INTERNAL_ZONE_KEYS_RIGHT, input_stls, output_files,
             selected_html_values, selected_foot, selected_size,
             zones_to_process_internal_keys, unknown_html_values, command,
             script_result, response>>

serverVars == <<VALID_INTERNAL_ZONE_KEYS_LEFT, VALID_INTERNAL_ZONE_KEYS_RIGHT>>

requestVars == <<selected_html_values, selected_foot, selected_size>>

vars == <<zones, annotations, mesh, pc, exit_code, stderr, selected_zones,
          zone_name_to_ids, selected_ids, ann_idx, zone_name, path, grid_x,
          grid_y, ix, iy, valid_points, spikes, spike_count,
          ray_casting_attempts, ray_casting_successes, positional_errors,
          bump_locations, zone_bumps, zone_paths, success_rate, bump_spacing,
          avg_spacing, placement_accuracy, files, report, candidates, ann_log,
          appVars>>

pipelineVars == <<zones, annotations, mesh, pc, exit_code, stderr,
                  selected_zones, zone_name_to_ids, selected_ids, ann_idx,
                  zone_name, path, grid_x, grid_y, ix, iy, valid_points,
                  spikes, spike_count, ray_casting_attempts,
                  ray_casting_successes, positional_errors, bump_locations,
                  zone_bumps, zone_paths, success_rate, bump_spacing,
                  avg_spacing, placement_accuracy, files, report, candidates,
                  ann_log>>

inputVars == <<zones, annotations, mesh>>

resolveVars == <<selected_zones, zone_name_to_ids, selected_ids>>

annVars == <<zone_name, path, grid_x, grid_y, ix, iy, valid_points, candidates>>

placeVars == <<spikes, spike_count, ray_casting_successes, positional_errors,
               bump_locations, zone_bumps>>

metricVars == <<success_rate, bump_spacing, avg_spacing, placement_accuracy>>

None == "None"

(***************************************************************************)
(* Bounds of the model.                                                    *)
(***************************************************************************)
MaxZones == 2

MaxAnns == 2

\* the most area values one request carries
MaxAreas == 2

(***************************************************************************)
(* Program constants.                                                      *)
(***************************************************************************)
\* step = 5.0, the grid spacing, in pixels
step == 5

\* the 10 mm margin added to the mesh's minimum corner, in 0.01 mm
Margin == 1000

\* the 0.01 mm offset that lifts a bump off the surface, in 0.01 mm
ZOffset == 1

(***************************************************************************)
(* Helpers on sequences.                                                   *)
(***************************************************************************)
Range(s) == {s[i] : i \in DOMAIN s}

SeqsUpTo(S, n) == UNION {[1..k -> S] : k \in 0..n}

(***************************************************************************)
(* The inputs: the annotation file and the sole mesh.                      *)
(***************************************************************************)
\* str.lower() on the names that occur
Lower(s) ==
    CASE s \in {"Heart", "HEART", "heart"} -> "heart"
      [] s \in {"LIVER", "Liver", "liver"} -> "liver"
      [] s \in {"BOGUS", "bogus"} -> "bogus"
      [] OTHER -> s

\* coco_data['categories']: two categories share the name heart
categories ==
    << [id |-> 1, name |-> "Heart"],
       [id |-> 2, name |-> "LIVER"],
       [id |-> 3, name |-> "heart"] >>

\* coco_data['images'][0]
image_info == [width |-> 20, height |-> 20]

img_width == image_info.width

img_height == image_info.height

\* a square of side 10
SquarePoly == << <<0, 10>>, <<10, 10>>, <<10, 20>>, <<0, 20>> >>

\* a rectangle of sides 7, far from the square
FarPoly == << <<12, 0>>, <<19, 0>>, <<19, 7>>, <<12, 7>> >>

\* a triangle inside the square, on the same grid
TrianglePoly == << <<0, 10>>, <<10, 10>>, <<0, 18>> >>

\* a polygon of no height: its grid has no point
FlatPoly == << <<2, 2>>, <<6, 2>>, <<4, 2>> >>

Annotation(cid, seg) == [category_id |-> cid, segmentation |-> seg]

\* the annotations an annotation file is made of: a category id and a
\* segmentation, a list of polygons of which the first is used.  Category 3
\* carries the same name as category 1, category 9 does not exist, and the
\* empty segmentation is a malformed annotation
AnnotationPool ==
    { Annotation(1, <<SquarePoly>>),
      Annotation(1, <<FlatPoly>>),
      Annotation(2, <<FarPoly>>),
      Annotation(2, <<>>),
      Annotation(3, <<TrianglePoly>>),
      Annotation(9, <<SquarePoly>>) }

ZoneArgs == {"HEART", "liver", "bogus"}

\* a sole mesh: its bounding box and, for a vertical ray inside the box's
\* footprint, the heights of the intersections in the order the ray engine
\* returns them
Meshes ==
    { [bounds |-> << <<0, 0, 0>>, <<2000, 2000, 500>> >>, zs |-> <<0, 500>>],
      [bounds |-> << <<0, 0, 0>>, <<4000, 4000, 500>> >>, zs |-> <<200, 500, 0>>] }

\* mesh.ray.intersects_location(origin, direction) for the ray (x, y, top_z + 10)
\* going down: every intersection of the ray with the solid
Intersections(m, x, y) ==
    IF /\ m.bounds[1][1] <= x /\ x <= m.bounds[2][1]
       /\ m.bounds[1][2] <= y /\ y <= m.bounds[2][2]
    THEN [k \in DOMAIN m.zs |-> <<x, y, m.zs[k]>>]
    ELSE <<>>

(***************************************************************************)
(* Zone resolution.                                                        *)
(***************************************************************************)
\* a variant that forgets to lower-case the typed names
SelectedZonesAsTyped(zs) == zs

\* selected_zones = [zone.lower() for zone in args.zones]
SelectedZones(zs) == [i \in DOMAIN zs |-> Lower(zs[i])]

RECURSIVE IdsNamed(_, _)
IdsNamed(cats, name) ==
    IF cats = <<>> THEN <<>>
    ELSE (IF Lower(Head(cats).name) = name THEN <<Head(cats).id>> ELSE <<>>)
             \o IdsNamed(Tail(cats), name)

\* zone_name_to_ids: lower-cased category name -> the ids carrying it, in order
ZoneNameToIds(cats) ==
    [name \in {Lower(cats[i].name) : i \in DOMAIN cats} |-> IdsNamed(cats, name)]

RECURSIVE SelectedIds(_, _)
SelectedIds(selzones, map) ==
    IF selzones = <<>> THEN <<>>
    ELSE (IF Head(selzones) \in DOMAIN map THEN map[Head(selzones)] ELSE <<>>)
             \o SelectedIds(Tail(selzones), map)

Warning(msg, arg) == [kind |-> "warning", msg |-> msg, arg |-> arg]

Error(msg) == [kind |-> "error", msg |-> msg, arg |-> ""]

RECURSIVE UnknownZoneWarnings(_, _)
UnknownZoneWarnings(selzones, map) ==
    IF selzones = <<>> THEN <<>>
    ELSE (IF Head(selzones) \in DOMAIN map
          THEN <<>> ELSE <<Warning("zone_not_found", Head(selzones))>>)
             \o UnknownZoneWarnings(Tail(selzones), map)

\* if not selected_ids and selected_zones: fatal
NoZoneMatched(ids, selzones) == ids = <<>> /\ selzones # <<>>

(***************************************************************************)
(* Coordinate mapping.                                                     *)
(***************************************************************************)
origin_x(m) == m.bounds[1][1] + Margin

origin_y(m) == m.bounds[1][2] + Margin

\* the meshes of the model have extents that are multiples of the image size
x_scale(m) == (m.bounds[2][1] - m.bounds[1][1]) \div img_width

y_scale(m) == (m.bounds[2][2] - m.bounds[1][2]) \div img_height

map_2d_to_3d(m, x, y) ==
    << origin_x(m) + x * x_scale(m), origin_y(m) + (img_height - y) * y_scale(m) >>

\* the inverse applied to a bump location, for the mapping accuracy
To2d(m, loc) ==
    << (loc[1] - origin_x(m)) \div x_scale(m),
       img_height - ((loc[2] - origin_y(m)) \div y_scale(m)) >>

(***************************************************************************)
(* Zone sampling.                                                          *)
(***************************************************************************)
MinOf(S) == CHOOSE v \in S : \A w \in S : v <= w

MaxOf(S) == CHOOSE v \in S : \A w \in S : w <= v

min_x(poly) == MinOf({poly[i][1] : i \in DOMAIN poly})

max_x(poly) == MaxOf({poly[i][1] : i \in DOMAIN poly})

min_y(poly) == MinOf({poly[i][2] : i \in DOMAIN poly})

max_y(poly) == MaxOf({poly[i][2] : i \in DOMAIN poly})

\* a variant that keeps only the steps that fit whole below stop
RECURSIVE ArangeWholeSteps(_, _, _)
ArangeWholeSteps(start, stop, st) ==
    IF start + st > stop THEN <<>>
    ELSE <<start>> \o ArangeWholeSteps(start + st, stop, st)

\* np.arange(start, stop, step): start, start + step, ... while below stop
RECURSIVE Arange(_, _, _)
Arange(start, stop, st) ==
    IF start >= stop THEN <<>> ELSE <<start>> \o Arange(start + st, stop, st)

\* Path.contains_point: the even-odd rule over the polygon's edges, closed from
\* the last vertex to the first; a point on an edge counts as the rule gives
ContainsPoint(poly, p) ==
    LET n == Len(poly)
        Crosses(i) ==
            LET a == poly[i]
                b == poly[(i % n) + 1]
                dy == b[2] - a[2]
                lhs == (p[1] - a[1]) * dy
                rhs == (p[2] - a[2]) * (b[1] - a[1])
            IN  /\ (a[2] > p[2]) # (b[2] > p[2])
                /\ IF dy > 0 THEN lhs < rhs ELSE lhs > rhs
    IN  Cardinality({i \in 1..n : Crosses(i)}) % 2 = 1

\* a variant that applies the filter even when nothing was selected
AnnotationSelectedStrict(ann, ids) == ann.category_id \in Range(ids)

\* not (selected_ids and ann['category_id'] not in selected_ids)
AnnotationSelected(ann, ids) ==
    ~(ids # <<>> /\ ann.category_id \notin Range(ids))

RECURSIVE CategoryName(_, _)
\* the lower-cased name of the first category with this id, or None
CategoryName(cats, cid) ==
    IF cats = <<>> THEN None
    ELSE IF Head(cats).id = cid THEN Lower(Head(cats).name)
    ELSE CategoryName(Tail(cats), cid)

zone_color_map ==
    [heart |-> <<255, 0, 0, 255>>, liver |-> <<165, 42, 42, 255>>,
     default |-> <<128, 128, 128, 255>>]

ZoneColor(name) ==
    IF name \in DOMAIN zone_color_map THEN zone_color_map[name]
    ELSE zone_color_map["default"]

(***************************************************************************)
(* Surface location and bump placement.                                    *)
(***************************************************************************)
\* a variant that takes the first intersection the ray engine returns
TopLocationFirst(locations) == locations[1]

\* locations[np.argmax([loc[2] for loc in locations])]: the first of maximal z
TopLocation(locations) ==
    LET z3d == MaxOf({locations[k][3] : k \in DOMAIN locations})
        first == MinOf({k \in DOMAIN locations : locations[k][3] = z3d})
    IN  locations[first]

\* the bump translated to [x3d, y3d, z3d + 0.01] and coloured
PlacedBump(x3d, y3d, z3d, color) ==
    [piece |-> "bump", translation |-> <<x3d, y3d, z3d + ZOffset>>, color |-> color]

SoleMesh == [piece |-> "sole", translation |-> <<0, 0, 0>>, color |-> <<>>]

Dist2(p, q) ==
    (p[1] - q[1]) * (p[1] - q[1]) + (p[2] - q[2]) * (p[2] - q[2])
        + (p[3] - q[3]) * (p[3] - q[3])

(***************************************************************************)
(* Metrics.                                                                *)
(***************************************************************************)
\* float('inf'), as a value no squared distance takes
Inf == -1

\* a variant that reports 100 when nothing was attempted
SuccessRateDefault100(successes, attempts) ==
    IF attempts > 0 THEN <<successes * 100, attempts>> ELSE <<100, 1>>

\* (successes / attempts * 100) if attempts > 0 else 0
SuccessRate(successes, attempts) ==
    IF attempts > 0 THEN <<successes * 100, attempts>> ELSE <<0, 1>>

RECURSIVE MinDistance(_, _, _, _)
\* the inner loop over j: the least distance with 0 < distance, or Inf
MinDistance(locs, i, j, min_distance) ==
    IF j > Len(locs) THEN min_distance
    ELSE LET distance == Dist2(locs[i], locs[j])
             closer == /\ i # j
                       /\ 0 < distance
                       /\ (min_distance = Inf \/ distance < min_distance)
         IN  MinDistance(locs, i, j + 1, IF closer THEN distance ELSE min_distance)

RECURSIVE SpacingFrom(_, _)
\* the outer loop over i
SpacingFrom(locs, i) ==
    IF i > Len(locs) THEN <<>>
    ELSE LET min_distance == MinDistance(locs, i, 1, Inf)
         IN  (IF min_distance # Inf THEN <<min_distance>> ELSE <<>>)
                 \o SpacingFrom(locs, i + 1)

\* a variant that keeps the zero distance of a coincident bump
RECURSIVE MinDistanceWithZero(_, _, _, _)
MinDistanceWithZero(locs, i, j, min_distance) ==
    IF j > Len(locs) THEN min_distance
    ELSE LET distance == Dist2(locs[i], locs[j])
             closer == /\ i # j
                       /\ (min_distance = Inf \/ distance < min_distance)
         IN  MinDistanceWithZero(locs, i, j + 1,
                                 IF closer THEN distance ELSE min_distance)

RECURSIVE SpacingWithZeroFrom(_, _)
SpacingWithZeroFrom(locs, i) ==
    IF i > Len(locs) THEN <<>>
    ELSE <<MinDistanceWithZero(locs, i, 1, Inf)>> \o SpacingWithZeroFrom(locs, i + 1)

BumpSpacingWithZero(locs) ==
    IF Len(locs) > 1 THEN SpacingWithZeroFrom(locs, 1) ELSE <<>>

\* bump_spacing: squared nearest-neighbour distances
BumpSpacing(locs) == IF Len(locs) > 1 THEN SpacingFrom(locs, 1) ELSE <<>>

\* np.mean(bump_spacing) if bump_spacing else step: where the average comes
\* from and over how many samples
AvgSpacing(spacing) ==
    IF spacing # <<>> THEN [src |-> "mean", n |-> Len(spacing)]
    ELSE [src |-> "step", n |-> 0]

\* the zones whose stored path contains the re-projected location
ZonesContaining(m, paths, loc) ==
    {zone \in DOMAIN paths : ContainsPoint(paths[zone], To2d(m, loc))}

RECURSIVE CorrectPlacements(_, _, _)
CorrectPlacements(m, paths, locs) ==
    IF locs = <<>> THEN 0
    ELSE (IF ZonesContaining(m, paths, Head(locs)) # {} THEN 1 ELSE 0)
             + CorrectPlacements(m, paths, Tail(locs))

\* placement_accuracy
PlacementAccuracy(m, paths, locs, count) ==
    IF count > 0 THEN <<CorrectPlacements(m, paths, locs) * 100, count>>
    ELSE <<0, 1>>

\* a variant that keeps the zero entries
FilterZoneBumpsKeepAll(zb) == zb

\* {zone: count for zone, count in zone_bumps.items() if count > 0}
FilterZoneBumps(zb) == [zone \in {z \in DOMAIN zb : zb[z] > 0} |-> zb[zone]]

(***************************************************************************)
(* The run.                                                                *)
(***************************************************************************)
\* app.py before its module-level code has run
AppBoot ==
    /\ app_pc = "boot"
    /\ VALID_INTERNAL_ZONE_KEYS_LEFT = <<>>
    /\ VALID_INTERNAL_ZONE_KEYS_RIGHT = <<>>
    /\ input_stls = {}
    /\ output_files = {}
    /\ selected_html_values = <<>>
    /\ selected_foot = None
    /\ selected_size = None
    /\ zones_to_process_internal_keys = <<>>
    /\ unknown_html_values = <<>>
    /\ command = <<>>
    /\ script_result = "none"
    /\ response = <<>>

Init ==
    /\ AppBoot
    /\ zones \in SeqsUpTo(ZoneArgs, MaxZones)
    /\ annotations \in SeqsUpTo(AnnotationPool, MaxAnns)
    /\ mesh \in Meshes
    /\ pc = "start"
    /\ exit_code = "running"
    /\ stderr = <<>>
    /\ selected_zones = <<>>
    /\ zone_name_to_ids = <<>>
    /\ selected_ids = <<>>
    /\ ann_idx = 1
    /\ zone_name = None
    /\ path = <<>>
    /\ grid_x = <<>>
    /\ grid_y = <<>>
    /\ ix = 1
    /\ iy = 1
    /\ valid_points = 0
    /\ spikes = <<>>
    /\ spike_count = 0
    /\ ray_casting_attempts = 0
    /\ ray_casting_successes = 0
    /\ positional_errors = <<>>
    /\ bump_locations = <<>>
    /\ zone_bumps = <<>>
    /\ zone_paths = <<>>
    /\ success_rate = <<0, 1>>
    /\ bump_spacing = <<>>
    /\ avg_spacing = [src |-> "unset", n |-> 0]
    /\ placement_accuracy = <<0, 1>>
    /\ files = {}
    /\ report = <<>>
    /\ candidates = <<>>
    /\ ann_log = <<>>

\* sys.exit(1) after an error message
Fatal(msg) ==
    /\ stderr' = Append(stderr, Error(msg))
    /\ exit_code' = "nonzero"
    /\ pc' = "failed"

\* the input STL is missing or does not load, the annotation file is missing
\* or does not parse
InputFails ==
    /\ pc = "start"
    /\ \E msg \in {"stl_not_found", "stl_load_failed",
                   "annotations_not_found", "annotations_load_failed"} :
           Fatal(msg)
    /\ UNCHANGED <<appVars, inputVars, resolveVars, ann_idx, annVars, placeVars,
                   ray_casting_attempts, zone_paths, metricVars, files, report,
                   ann_log>>

\* the inputs load
LoadInputs ==
    /\ pc = "start"
    /\ pc' = "resolve"
    /\ UNCHANGED <<appVars, inputVars, exit_code, stderr, resolveVars, ann_idx, annVars,
                   placeVars, ray_casting_attempts, zone_paths, metricVars,
                   files, report, ann_log>>

\* zone resolution, then either the fatal exit or the start of the placement
ResolveZones ==
    /\ pc = "resolve"
    /\ LET selzones == SelectedZones(zones)
           map == ZoneNameToIds(categories)
           ids == SelectedIds(selzones, map)
           warnings == UnknownZoneWarnings(selzones, map)
       IN  /\ selected_zones' = selzones
           /\ zone_name_to_ids' = map
           /\ selected_ids' = ids
           /\ IF NoZoneMatched(ids, selzones)
              THEN /\ stderr' = (stderr \o warnings) \o <<Error("no_zone_matched")>>
                   /\ exit_code' = "nonzero"
                   /\ pc' = "failed"
                   /\ UNCHANGED <<spikes, zone_bumps>>
              ELSE /\ stderr' = stderr \o warnings
                   /\ pc' = "ann_loop"
                   /\ spikes' = <<SoleMesh>>
                   /\ zone_bumps' = [zone \in DOMAIN map |-> 0]
                   /\ UNCHANGED exit_code
    /\ UNCHANGED <<appVars, inputVars, ann_idx, annVars, spike_count,
                   ray_casting_attempts, ray_casting_successes,
                   positional_errors, bump_locations, zone_paths, metricVars,
                   files, report, ann_log>>

CurAnn == annotations[ann_idx]

InLoop == pc = "ann_loop" /\ ann_idx <= Len(annotations)

\* the annotation's category is not selected
AnnotationSkip ==
    /\ InLoop
    /\ ~AnnotationSelected(CurAnn, selected_ids)
    /\ ann_idx' = ann_idx + 1
    /\ UNCHANGED <<appVars, inputVars, pc, exit_code, stderr, resolveVars, annVars,
                   placeVars, ray_casting_attempts, zone_paths, metricVars,
                   files, report, ann_log>>

\* no category carries the annotation's category id
AnnotationNoCategory ==
    /\ InLoop
    /\ AnnotationSelected(CurAnn, selected_ids)
    /\ CategoryName(categories, CurAnn.category_id) = None
    /\ zone_name' = None
    /\ stderr' = Append(stderr, Warning("no_category", ""))
    /\ ann_idx' = ann_idx + 1
    /\ UNCHANGED <<appVars, inputVars, pc, exit_code, resolveVars, path, grid_x, grid_y,
                   ix, iy, valid_points, candidates, placeVars,
                   ray_casting_attempts, zone_paths, metricVars, files, report,
                   ann_log>>

\* the segmentation cannot be read: the exception is caught and reported
AnnotationMalformed ==
    /\ InLoop
    /\ AnnotationSelected(CurAnn, selected_ids)
    /\ CategoryName(categories, CurAnn.category_id) # None
    /\ CurAnn.segmentation = <<>>
    /\ zone_name' = CategoryName(categories, CurAnn.category_id)
    /\ stderr' = Append(stderr, Warning("annotation_failed", ""))
    /\ ann_idx' = ann_idx + 1
    /\ UNCHANGED <<appVars, inputVars, pc, exit_code, resolveVars, path, grid_x, grid_y,
                   ix, iy, valid_points, candidates, placeVars,
                   ray_casting_attempts, zone_paths, metricVars, files, report,
                   ann_log>>

\* the polygon is read, stored under the zone's name, and its grid laid out
AnnotationBegin ==
    /\ InLoop
    /\ AnnotationSelected(CurAnn, selected_ids)
    /\ CategoryName(categories, CurAnn.category_id) # None
    /\ CurAnn.segmentation # <<>>
    /\ LET name == CategoryName(categories, CurAnn.category_id)
           seg == CurAnn.segmentation[1]
       IN  /\ zone_name' = name
           /\ path' = seg
           /\ zone_paths' = [zone \in DOMAIN zone_paths \cup {name} |->
                                IF zone = name THEN seg ELSE zone_paths[zone]]
           /\ grid_x' = Arange(min_x(seg), max_x(seg), step)
           /\ grid_y' = Arange(min_y(seg), max_y(seg), step)
    /\ ix' = 1
    /\ iy' = 1
    /\ valid_points' = 0
    /\ candidates' = <<>>
    /\ pc' = "sample"
    /\ UNCHANGED <<appVars, inputVars, exit_code, stderr, resolveVars, ann_idx, placeVars,
                   ray_casting_attempts, metricVars, files, report, ann_log>>

GridDone == ix > Len(grid_x) \/ grid_y = <<>>

Sampling == pc = "sample" /\ ~GridDone

CurPoint == <<grid_x[ix], grid_y[iy]>>

\* the next iteration of the two nested loops
Advance ==
    /\ IF iy < Len(grid_y)
       THEN iy' = iy + 1 /\ ix' = ix
       ELSE iy' = 1 /\ ix' = ix + 1
    /\ candidates' = Append(candidates, CurPoint)

\* the grid point is not inside the polygon
SampleOutside ==
    /\ Sampling
    /\ ~ContainsPoint(path, CurPoint)
    /\ Advance
    /\ UNCHANGED <<appVars, inputVars, pc, exit_code, stderr, resolveVars, ann_idx,
                   zone_name, path, grid_x, grid_y, valid_points, placeVars,
                   ray_casting_attempts, zone_paths, metricVars, files, report,
                   ann_log>>

\* a variant that counts a contained point as valid only when its ray hits
SampleMissNotValid ==
    /\ Sampling
    /\ ContainsPoint(path, CurPoint)
    /\ LET p3d == map_2d_to_3d(mesh, CurPoint[1], CurPoint[2])
       IN  Intersections(mesh, p3d[1], p3d[2]) = <<>>
    /\ ray_casting_attempts' = ray_casting_attempts + 1
    /\ Advance
    /\ UNCHANGED <<appVars, inputVars, pc, exit_code, stderr, resolveVars, ann_idx,
                   zone_name, path, grid_x, grid_y, valid_points, placeVars,
                   zone_paths, metricVars, files, report, ann_log>>

\* a variant that counts the ray as a success before looking at its result
SampleMissCountsSuccess ==
    /\ Sampling
    /\ ContainsPoint(path, CurPoint)
    /\ LET p3d == map_2d_to_3d(mesh, CurPoint[1], CurPoint[2])
       IN  Intersections(mesh, p3d[1], p3d[2]) = <<>>
    /\ valid_points' = valid_points + 1
    /\ ray_casting_attempts' = ray_casting_attempts + 1
    /\ ray_casting_successes' = ray_casting_successes + 1
    /\ Advance
    /\ UNCHANGED <<appVars, inputVars, pc, exit_code, stderr, resolveVars, ann_idx,
                   zone_name, path, grid_x, grid_y, spikes, spike_count,
                   positional_errors, bump_locations, zone_bumps, zone_paths,
                   metricVars, files, report, ann_log>>

\* the grid point is inside the polygon and its ray misses the mesh
SampleMiss ==
    /\ Sampling
    /\ ContainsPoint(path, CurPoint)
    /\ LET p3d == map_2d_to_3d(mesh, CurPoint[1], CurPoint[2])
       IN  Intersections(mesh, p3d[1], p3d[2]) = <<>>
    /\ valid_points' = valid_points + 1
    /\ ray_casting_attempts' = ray_casting_attempts + 1
    /\ Advance
    /\ UNCHANGED <<appVars, inputVars, pc, exit_code, stderr, resolveVars, ann_idx,
                   zone_name, path, grid_x, grid_y, placeVars, zone_paths,
                   metricVars, files, report, ann_log>>

\* the grid point is inside the polygon and its ray hits: one bump is placed
SampleHit ==
    /\ Sampling
    /\ ContainsPoint(path, CurPoint)
    /\ LET p3d == map_2d_to_3d(mesh, CurPoint[1], CurPoint[2])
           locations == Intersections(mesh, p3d[1], p3d[2])
           loc == TopLocation(locations)
           expected_x == origin_x(mesh) + CurPoint[1] * x_scale(mesh)
           expected_y == origin_y(mesh) + (img_height - CurPoint[2]) * y_scale(mesh)
           positional_error ==
               (loc[1] - expected_x) * (loc[1] - expected_x)
                   + (loc[2] - expected_y) * (loc[2] - expected_y)
       IN  /\ locations # <<>>
           /\ positional_errors' = Append(positional_errors, positional_error)
           /\ spikes' = Append(spikes,
                               PlacedBump(p3d[1], p3d[2], loc[3], ZoneColor(zone_name)))
           /\ bump_locations' = Append(bump_locations, loc)
    /\ valid_points' = valid_points + 1
    /\ ray_casting_attempts' = ray_casting_attempts + 1
    /\ ray_casting_successes' = ray_casting_successes + 1
    /\ spike_count' = spike_count + 1
    /\ zone_bumps' = [zone_bumps EXCEPT ![zone_name] = @ + 1]
    /\ Advance
    /\ UNCHANGED <<appVars, inputVars, pc, exit_code, stderr, resolveVars, ann_idx,
                   zone_name, path, grid_x, grid_y, zone_paths, metricVars,
                   files, report, ann_log>>

\* the grid is exhausted: the zone-empty warning, then the next annotation
AnnotationEnd ==
    /\ pc = "sample"
    /\ GridDone
    /\ stderr' = IF valid_points = 0
                 THEN Append(stderr, Warning("no_valid_points", zone_name))
                 ELSE stderr
    /\ ann_log' = Append(ann_log,
                         [ann |-> ann_idx, zone |-> zone_name, poly |-> path,
                          candidates |-> candidates, contained |-> valid_points,
                          attempts |-> ray_casting_attempts,
                          bumps |-> spike_count,
                          warned |-> Len(stderr') > Len(stderr)])
    /\ ann_idx' = ann_idx + 1
    /\ pc' = "ann_loop"
    /\ UNCHANGED <<appVars, inputVars, exit_code, resolveVars, annVars, placeVars,
                   ray_casting_attempts, zone_paths, metricVars, files, report>>

\* the loop is over: the metrics and the filtered per-zone counts
ComputeMetrics ==
    /\ pc = "ann_loop"
    /\ ann_idx > Len(annotations)
    /\ success_rate' = SuccessRate(ray_casting_successes, ray_casting_attempts)
    /\ bump_spacing' = BumpSpacing(bump_locations)
    /\ avg_spacing' = AvgSpacing(bump_spacing')
    /\ placement_accuracy' =
           PlacementAccuracy(mesh, zone_paths, bump_locations, spike_count)
    /\ zone_bumps' = FilterZoneBumps(zone_bumps)
    /\ pc' = "export_ply"
    /\ UNCHANGED <<appVars, inputVars, exit_code, stderr, resolveVars, ann_idx, annVars,
                   spikes, spike_count, ray_casting_attempts,
                   ray_casting_successes, positional_errors, bump_locations,
                   zone_paths, files, report, ann_log>>

exportFrame == <<appVars, inputVars, resolveVars, ann_idx, annVars, placeVars,
                 ray_casting_attempts, zone_paths, metricVars, report, ann_log>>

\* combined.export(output_file) succeeds
ExportPly ==
    /\ pc = "export_ply"
    /\ files' = files \cup {"ply"}
    /\ pc' = "export_stl"
    /\ UNCHANGED <<exportFrame, exit_code, stderr>>

\* concatenating or writing the PLY raises
ExportPlyFails ==
    /\ pc = "export_ply"
    /\ Fatal("export_failed")
    /\ UNCHANGED <<exportFrame, files>>

\* combined.export(stl_output) succeeds
ExportStl ==
    /\ pc = "export_stl"
    /\ files' = files \cup {"stl"}
    /\ pc' = "report"
    /\ UNCHANGED <<exportFrame, exit_code, stderr>>

\* writing the STL raises, after the PLY was written
ExportStlFails ==
    /\ pc = "export_stl"
    /\ Fatal("export_failed")
    /\ UNCHANGED <<exportFrame, files>>

\* the quantitative metrics are printed and the script ends
PrintReport ==
    /\ pc = "report"
    /\ report' = <<[success_rate |-> success_rate,
                    placement_accuracy |-> placement_accuracy,
                    zone_bumps |-> zone_bumps,
                    spike_count |-> spike_count,
                    avg_spacing |-> avg_spacing]>>
    /\ exit_code' = "zero"
    /\ pc' = "done"
    /\ UNCHANGED <<appVars, inputVars, stderr, resolveVars, ann_idx, annVars, placeVars,
                   ray_casting_attempts, zone_paths, metricVars, files, ann_log>>

Next ==
    \/ InputFails
    \/ LoadInputs
    \/ ResolveZones
    \/ AnnotationSkip
    \/ AnnotationNoCategory
    \/ AnnotationMalformed
    \/ AnnotationBegin
    \/ SampleOutside
    \/ SampleMiss
    \/ SampleHit
    \/ AnnotationEnd
    \/ ComputeMetrics
    \/ ExportPly
    \/ ExportPlyFails
    \/ ExportStl
    \/ ExportStlFails
    \/ PrintReport

Spec == Init /\ [][Next]_vars

TypeOK ==
    /\ pc \in {"start", "resolve", "ann_loop", "sample", "export_ply",
               "export_stl", "report", "done", "failed"}
    /\ exit_code \in {"running", "zero", "nonzero"}
    /\ ray_casting_attempts \in Nat
    /\ spike_count \in Nat

(***************************************************************************)
(* app.py: the web front end.  It loads one whitelist of zone keys per     *)
(* foot when it starts, and its handler of POST /generate_slippers         *)
(* validates the form, maps the selected areas to zone keys, runs the      *)
(* pipeline as a subprocess and answers with a JSON body and a status.     *)
(* The subprocess is seen from outside: how it ended, and whether the      *)
(* expected output file exists afterwards.                                 *)
(***************************************************************************)
\* str.upper() on the names that occur in the configurations and the forms
Upper(s) ==
    CASE s \in {"heart", "Heart"} -> "HEART"
      [] s \in {"liver", "Liver"} -> "LIVER"
      [] s \in {"spleen", "Spleen"} -> "SPLEEN"
      [] s = "left_foot_organs" -> "LEFT_FOOT_ORGANS"
      [] s = "Right_Foot_Organs" -> "RIGHT_FOOT_ORGANS"
      [] s = "bogus" -> "BOGUS"
      [] OTHER -> s

\* the two category names that are never zone keys
ReservedNames == {"LEFT_FOOT_ORGANS", "RIGHT_FOOT_ORGANS"}

\* Left_reflexology_zones.json; its last category has no name
LeftZoneConfig ==
    [exists |-> TRUE, has_categories |-> TRUE,
     categories |-> <<[id |-> 1, name |-> "Heart"],
                      [id |-> 2, name |-> "Liver"],
                      [id |-> 3, name |-> "LEFT_FOOT_ORGANS"],
                      [id |-> 4]>>]

\* Right_reflexology_zones.json
RightZoneConfig ==
    [exists |-> TRUE, has_categories |-> TRUE,
     categories |-> <<[id |-> 1, name |-> "heart"],
                      [id |-> 2, name |-> "Spleen"],
                      [id |-> 3, name |-> "Right_Foot_Organs"]>>]

\* a configuration file that is absent or does not parse
MissingZoneConfig ==
    [exists |-> FALSE, has_categories |-> FALSE, categories |-> <<>>]

\* a configuration file without the "categories" field
NoCategoriesZoneConfig ==
    [exists |-> TRUE, has_categories |-> FALSE, categories |-> <<>>]

\* the <<left, right>> configurations the server may start with
ZoneConfigs ==
    {<<LeftZoneConfig, RightZoneConfig>>,
     <<MissingZoneConfig, RightZoneConfig>>,
     <<LeftZoneConfig, NoCategoriesZoneConfig>>}

\* the values a form may carry
HtmlValues == {"heart", "HEART", "liver", "left_foot_organs", "bogus"}

Feet == {"left", "right", "both", None}

Sizes == {"8", None}

\* None is <<>>, a loaded whitelist is <<keys>>
load_valid_zone_keys(config) ==
    IF ~config.exists THEN <<>>
    ELSE IF config.has_categories
         THEN <<{Upper(cat.name) :
                   cat \in {c \in Range(config.categories) :
                              /\ "name" \in DOMAIN c
                              /\ Upper(c.name) \notin ReservedNames}}>>
         ELSE <<{}>>

\* valid_zone_keys, the whitelist of the selected foot
ValidZoneKeys(foot) ==
    IF foot = "left" THEN VALID_INTERNAL_ZONE_KEYS_LEFT[1]
    ELSE VALID_INTERNAL_ZONE_KEYS_RIGHT[1]

\* a variant of the loop body that appends a key each time it is selected
MapHtmlValueRepeated(acc, html_val, valid_zone_keys) ==
    LET internal_key_candidate == Upper(html_val)
    IN  IF internal_key_candidate \in valid_zone_keys
        THEN [acc EXCEPT !.keys = Append(@, internal_key_candidate)]
        ELSE [acc EXCEPT !.unknown = Append(@, html_val)]

\* one turn of the loop over selected_html_values
MapHtmlValue(acc, html_val, valid_zone_keys) ==
    LET internal_key_candidate == Upper(html_val)
    IN  IF internal_key_candidate \in valid_zone_keys
        THEN IF internal_key_candidate \notin Range(acc.keys)
             THEN [acc EXCEPT !.keys = Append(@, internal_key_candidate)]
             ELSE acc
        ELSE [acc EXCEPT !.unknown = Append(@, html_val)]

\* the whole loop: the keys to process and the values not recognised
RECURSIVE MapHtmlValues(_, _)
MapHtmlValues(html_values, valid_zone_keys) ==
    IF html_values = <<>> THEN [keys |-> <<>>, unknown |-> <<>>]
    ELSE MapHtmlValue(MapHtmlValues(SubSeq(html_values, 1, Len(html_values) - 1),
                                    valid_zone_keys),
                      html_values[Len(html_values)], valid_zone_keys)

\* return jsonify(status=...), code
Respond(code, status) ==
    /\ response' = <<[code |-> code, status |-> status]>>
    /\ app_pc' = "responded"

ConfigLoaded ==
    /\ VALID_INTERNAL_ZONE_KEYS_LEFT # <<>>
    /\ VALID_INTERNAL_ZONE_KEYS_RIGHT # <<>>

\* the module-level code: both whitelists are loaded once; the files on disk
AppStartup ==
    /\ app_pc = "boot"
    /\ \E cfg \in ZoneConfigs :
           /\ VALID_INTERNAL_ZONE_KEYS_LEFT' = load_valid_zone_keys(cfg[1])
           /\ VALID_INTERNAL_ZONE_KEYS_RIGHT' = load_valid_zone_keys(cfg[2])
    /\ input_stls' \in {{"left", "right"}, {"left"}}
    /\ app_pc' = "listening"
    /\ UNCHANGED <<pipelineVars, output_files, requestVars,
                   zones_to_process_internal_keys, unknown_html_values,
                   command, script_result, response>>

\* a POST arrives and the form is read
ReceiveRequest ==
    /\ app_pc = "listening"
    /\ selected_html_values' \in SeqsUpTo(HtmlValues, MaxAreas)
    /\ selected_foot' \in Feet
    /\ selected_size' \in Sizes
    /\ app_pc' = "validate"
    /\ UNCHANGED <<pipelineVars, serverVars, input_stls, output_files,
                   zones_to_process_internal_keys, unknown_html_values,
                   command, script_result, response>>

\* the handler has returned: its locals are gone, the files on disk stay
HandlerReturns ==
    /\ app_pc = "responded"
    /\ selected_html_values' = <<>>
    /\ selected_foot' = None
    /\ selected_size' = None
    /\ zones_to_process_internal_keys' = <<>>
    /\ unknown_html_values' = <<>>
    /\ command' = <<>>
    /\ script_result' = "none"
    /\ response' = <<>>
    /\ app_pc' = "listening"
    /\ UNCHANGED <<pipelineVars, serverVars, input_stls, output_files>>

\* the frame of a step that only answers
answerFrame == <<pipelineVars, serverVars, input_stls, output_files,
                 requestVars, zones_to_process_internal_keys,
                 unknown_html_values, command, script_result>>

\* a whitelist is None
ConfigurationError ==
    /\ app_pc = "validate"
    /\ ~ConfigLoaded
    /\ Respond(500, "error")
    /\ UNCHANGED answerFrame

NoAreasSelected ==
    /\ app_pc = "validate"
    /\ ConfigLoaded
    /\ selected_html_values = <<>>
    /\ Respond(400, "error")
    /\ UNCHANGED answerFrame

InvalidFoot ==
    /\ app_pc = "validate"
    /\ ConfigLoaded
    /\ selected_html_values # <<>>
    /\ selected_foot \notin {"left", "right"}
    /\ Respond(400, "error")
    /\ UNCHANGED answerFrame

NoSizeSelected ==
    /\ app_pc = "validate"
    /\ ConfigLoaded
    /\ selected_html_values # <<>>
    /\ selected_foot \in {"left", "right"}
    /\ selected_size = None
    /\ Respond(400, "error")
    /\ UNCHANGED answerFrame

\* the form is valid: the areas are mapped to zone keys
ProcessZones ==
    /\ app_pc = "validate"
    /\ ConfigLoaded
    /\ selected_html_values # <<>>
    /\ selected_foot \in {"left", "right"}
    /\ selected_size # None
    /\ LET mapped == MapHtmlValues(selected_html_values,
                                   ValidZoneKeys(selected_foot))
       IN  /\ zones_to_process_internal_keys' = mapped.keys
           /\ unknown_html_values' = mapped.unknown
    /\ app_pc' = "mapped"
    /\ UNCHANGED <<pipelineVars, serverVars, input_stls, output_files,
                   requestVars, command, script_result, response>>

\* none of the selected areas is a known zone
ZoneMappingFailed ==
    /\ app_pc = "mapped"
    /\ zones_to_process_internal_keys = <<>>
    /\ Respond(400, "error")
    /\ UNCHANGED answerFrame

InputStlMissing ==
    /\ app_pc = "mapped"
    /\ zones_to_process_internal_keys # <<>>
    /\ selected_foot \notin input_stls
    /\ Respond(404, "error")
    /\ UNCHANGED answerFrame

\* the command is built and subprocess.run returns or raises; a process that
\* ran may have written the expected output file
RunScript ==
    /\ app_pc = "mapped"
    /\ zones_to_process_internal_keys # <<>>
    /\ selected_foot \in input_stls
    /\ command' = <<[foot |-> selected_foot,
                     zones |-> zones_to_process_internal_keys]>>
    /\ \E result \in {"zero", "nonzero", "FileNotFoundError", "Exception"} :
           /\ script_result' = result
           /\ output_files' \in
                  IF result = "FileNotFoundError" THEN {output_files}
                  ELSE {output_files, output_files \cup {selected_foot}}
    /\ app_pc' = "ran"
    /\ UNCHANGED <<pipelineVars, serverVars, input_stls, requestVars,
                   zones_to_process_internal_keys, unknown_html_values,
                   response>>

\* the script exited zero and the expected output file is not there
OutputMissing ==
    /\ app_pc = "ran"
    /\ script_result = "zero"
    /\ selected_foot \notin output_files
    /\ Respond(500, "error")
    /\ UNCHANGED answerFrame

GenerationSuccessful ==
    /\ app_pc = "ran"
    /\ script_result = "zero"
    /\ selected_foot \in output_files
    /\ Respond(200, "success")
    /\ UNCHANGED answerFrame

\* except FileNotFoundError
ScriptNotFound ==
    /\ app_pc = "ran"
    /\ script_result = "FileNotFoundError"
    /\ Respond(500, "error")
    /\ UNCHANGED answerFrame

\* except subprocess.CalledProcessError: the script exited non-zero
ScriptFailed ==
    /\ app_pc = "ran"
    /\ script_result = "nonzero"
    /\ Respond(500, "error")
    /\ UNCHANGED answerFrame

\* except Exception
UnexpectedError ==
    /\ app_pc = "ran"
    /\ script_result = "Exception"
    /\ Respond(500, "error")
    /\ UNCHANGED answerFrame

\* the server alone: the pipeline's own variables stay at one initial value
AppInit ==
    /\ Init
    /\ zones = <<>>
    /\ annotations = <<>>
    /\ mesh = CHOOSE m \in Meshes : TRUE

AppNext ==
    \/ AppStartup
    \/ ReceiveRequest
    \/ ConfigurationError
    \/ NoAreasSelected
    \/ InvalidFoot
    \/ NoSizeSelected
    \/ ProcessZones
    \/ ZoneMappingFailed
    \/ InputStlMissing
    \/ RunScript
    \/ OutputMissing
    \/ GenerationSuccessful
    \/ ScriptNotFound
    \/ ScriptFailed
    \/ UnexpectedError
    \/ HandlerReturns

AppSpec == AppInit /\ [][AppNext]_vars

(***************************************************************************)
(* Vocabulary of the properties, stated from the inputs alone.             *)
(***************************************************************************)
CeilDiv(a, b) == (a + b - 1) \div b

\* the coordinates lo, lo + step, ... below hi
AxisGrid(lo, hi) == {v \in lo..(hi - 1) : (v - lo) % step = 0}

\* the grid points of a polygon's bounding box, half-open at the max edges
PolyGrid(poly) ==
    AxisGrid(min_x(poly), max_x(poly)) \X AxisGrid(min_y(poly), max_y(poly))

ContainedSet(poly) == {p \in PolyGrid(poly) : ContainsPoint(poly, p)}

RayOf(p) == map_2d_to_3d(mesh, p[1], p[2])

RayHits(p) == Intersections(mesh, RayOf(p)[1], RayOf(p)[2]) # <<>>

HitSet(poly) == {p \in ContainedSet(poly) : RayHits(p)}

\* the typed names that match a category name, compared without case
MatchedNames ==
    {z \in Range(zones) :
        \E i \in DOMAIN categories : Lower(categories[i].name) = Lower(z)}

\* the category ids that belong to a matched name
MatchedIds ==
    {categories[i].id : i \in
        {j \in DOMAIN categories :
            \E z \in Range(zones) : Lower(categories[j].name) = Lower(z)}}

KnownIds == {categories[i].id : i \in DOMAIN categories}

InputErrors ==
    {Error(m) : m \in {"stl_not_found", "stl_load_failed",
                       "annotations_not_found", "annotations_load_failed"}}

\* zone resolution has run
Resolved == pc \notin {"start", "resolve"} /\ Range(stderr) \cap InputErrors = {}

\* the annotation loop is over and the metrics are computed
MetricsDone == pc \in {"export_ply", "export_stl", "report", "done"}

\* the annotations whose polygon has been or is being sampled
Sampled ==
    {ann_log[k].ann : k \in DOMAIN ann_log}
        \cup (IF pc = "sample" THEN {ann_idx} ELSE {})

\* the annotations the loop has reached
Reached ==
    {i \in DOMAIN annotations : i < ann_idx \/ (i = ann_idx /\ pc = "sample")}

WellFormed(i) == annotations[i].segmentation # <<>>

PolyOf(i) == annotations[i].segmentation[1]

RECURSIVE SumOver(_, _)
\* the sum of f over the finite set S
SumOver(f, S) ==
    IF S = {} THEN 0
    ELSE LET x == CHOOSE y \in S : TRUE IN f[x] + SumOver(f, S \ {x})

CountWarnings(w) == Cardinality({k \in DOMAIN stderr : stderr[k] = w})

PrevAttempts(k) == IF k = 1 THEN 0 ELSE ann_log[k - 1].attempts

PrevBumps(k) == IF k = 1 THEN 0 ELSE ann_log[k - 1].bumps

(***************************************************************************)
(* C1.  Zone resolution: when names are supplied and none matches a        *)
(* category name (without case), the run ends with a non-zero exit before  *)
(* any annotation is sampled, any ray is cast or any file is exported;     *)
(* when a supplied name matches, each unmatched name only gives a warning, *)
(* the run goes on, and exactly the annotations whose category id belongs  *)
(* to a matched name are processed.                                        *)
(***************************************************************************)
C1_ZoneResolution ==
    /\ (Resolved /\ zones # <<>> /\ MatchedNames = {}) =>
          /\ pc = "failed" /\ exit_code = "nonzero"
          /\ Error("no_zone_matched") \in Range(stderr)
          /\ ann_log = <<>> /\ candidates = <<>>
          /\ ray_casting_attempts = 0 /\ spike_count = 0 /\ spikes = <<>>
          /\ files = {} /\ report = <<>>
    /\ (Resolved /\ MatchedNames # {}) =>
          /\ \A z \in Range(zones) \ MatchedNames :
                 Warning("zone_not_found", Lower(z)) \in Range(stderr)
          /\ \A k \in DOMAIN stderr :
                 stderr[k].kind = "error" => stderr[k] = Error("export_failed")
          /\ pc = "failed" => ann_idx > Len(annotations)
          /\ Sampled =
                 {i \in Reached :
                     annotations[i].category_id \in MatchedIds /\ WellFormed(i)}
          /\ CountWarnings(Warning("annotation_failed", "")) =
                 Cardinality({i \in Reached \ Sampled :
                     annotations[i].category_id \in MatchedIds})
          /\ CountWarnings(Warning("no_category", "")) = 0

\* a finished run that was given a matching and an unknown name, sampled an
\* annotation and passed over another
C1_Witness ==
    /\ pc = "done"
    /\ MatchedNames # {}
    /\ Range(zones) \ MatchedNames # {}
    /\ Sampled # {}
    /\ \E i \in DOMAIN annotations : i \notin Sampled /\ WellFormed(i)

(***************************************************************************)
(* C2.  Every run that ends with a non-zero exit, a failed write of either *)
(* output format included, has written no output artifact and printed no   *)
(* report; a report is printed only by a run that wrote both formats.      *)
(***************************************************************************)
C2_FatalLeavesNothing ==
    /\ exit_code = "nonzero" => (files = {} /\ report = <<>>)
    /\ report # <<>> => (exit_code = "zero" /\ files = {"ply", "stl"})

(***************************************************************************)
(* C3.  As claimed: with zero zone names nothing is processed, no          *)
(* annotation is sampled, no ray is cast, no bump is placed.               *)
(***************************************************************************)
C3_ZeroNamesProcessNothing ==
    zones = <<>> =>
        /\ Sampled = {}
        /\ ray_casting_attempts = 0
        /\ spike_count = 0
        /\ spikes \in {<<>>, <<SoleMesh>>}

(***************************************************************************)
(* C3, amended.  With zero zone names no annotation is filtered out: every *)
(* annotation with a known category and a readable polygon is sampled,     *)
(* each of its contained points is a ray-cast attempt, and the combined    *)
(* mesh is the sole plus one bump per ray hit.                             *)
(***************************************************************************)
C3_ZeroNamesProcessEverything ==
    (Resolved /\ zones = <<>>) =>
        /\ selected_ids = <<>>
        /\ Error("no_zone_matched") \notin Range(stderr)
        /\ Sampled =
               {i \in Reached :
                   annotations[i].category_id \in KnownIds /\ WellFormed(i)}
        /\ MetricsDone =>
               /\ ray_casting_attempts =
                      SumOver([i \in Sampled |-> Cardinality(ContainedSet(PolyOf(i)))],
                              Sampled)
               /\ spike_count =
                      SumOver([i \in Sampled |-> Cardinality(HitSet(PolyOf(i)))],
                              Sampled)
               /\ Len(spikes) = 1 + spike_count

\* a finished run with no zone name that placed bumps
C3_Witness ==
    /\ pc = "done"
    /\ zones = <<>>
    /\ Len(ann_log) >= 2
    /\ spike_count > 0
    /\ ray_casting_attempts > ray_casting_successes

AllContainedHit ==
    \A k \in DOMAIN ann_log :
        ContainedSet(ann_log[k].poly) \subseteq HitSet(ann_log[k].poly)

SomeContained == \E k \in DOMAIN ann_log : ContainedSet(ann_log[k].poly) # {}

RateIs(rate, percent) == rate[2] > 0 /\ rate[1] = percent * rate[2]

RateInRange(rate) == rate[2] > 0 /\ 0 <= rate[1] /\ rate[1] <= 100 * rate[2]

(***************************************************************************)
(* C4.  Successes never exceed attempts; the success rate lies between 0   *)
(* and 100, is 0 when nothing was attempted and is exactly 100 when        *)
(* there was a contained sample point and every one of them hit.           *)
(***************************************************************************)
C4_SuccessRate ==
    /\ ray_casting_successes <= ray_casting_attempts
    /\ MetricsDone =>
          /\ RateInRange(success_rate)
          /\ ray_casting_attempts = 0 => RateIs(success_rate, 0)
          /\ (SomeContained /\ AllContainedHit) => RateIs(success_rate, 100)
          /\ (SomeContained /\ ~AllContainedHit) => ~RateIs(success_rate, 100)
    /\ report # <<>> => report[1].success_rate = success_rate

\* a finished run in which every contained point hit, reported at 100
C4_Witness ==
    /\ pc = "done"
    /\ ray_casting_attempts >= 2
    /\ SomeContained
    /\ AllContainedHit
    /\ RateIs(report[1].success_rate, 100)

(***************************************************************************)
(* The run as a function of its inputs: the bumps a run given the zone     *)
(* names zs places for the zone named zone, with the filter and the        *)
(* category lookup of the annotation loop.                                 *)
(***************************************************************************)
RunSampled(zs) ==
    LET ids == SelectedIds(SelectedZones(zs), ZoneNameToIds(categories))
    IN  {i \in DOMAIN annotations :
            /\ AnnotationSelected(annotations[i], ids)
            /\ CategoryName(categories, annotations[i].category_id) # None
            /\ WellFormed(i)}

RunZoneBumps(zs, zone) ==
    LET mine == {i \in RunSampled(zs) :
                    CategoryName(categories, annotations[i].category_id) = zone}
    IN  SumOver([i \in mine |-> Cardinality(HitSet(PolyOf(i)))], mine)

ReportedCount(zb, zone) == IF zone \in DOMAIN zb THEN zb[zone] ELSE 0

BoxesApart(p, q) ==
    \/ max_x(p) < min_x(q) \/ max_x(q) < min_x(p)
    \/ max_y(p) < min_y(q) \/ max_y(q) < min_y(p)

TwoZonesSelected ==
    /\ Len(zones) = 2
    /\ Lower(zones[1]) # Lower(zones[2])
    /\ Range(zones) = MatchedNames

(***************************************************************************)
(* C5.  In a run that selects two zones with distinct names, the total     *)
(* bump count is the sum of the reported per-zone counts, each zone's      *)
(* reported count is the count of a run that selects that zone alone on    *)
(* the same inputs, and no zone is reported with a count of zero.          *)
(***************************************************************************)
C5_TwoZonesAdd ==
    (MetricsDone /\ TwoZonesSelected) =>
        /\ spike_count = SumOver(zone_bumps, DOMAIN zone_bumps)
        /\ \A k \in 1..2 :
               ReportedCount(zone_bumps, Lower(zones[k])) =
                   RunZoneBumps(<<zones[k]>>, Lower(zones[k]))
        /\ \A zone \in DOMAIN zone_bumps : zone_bumps[zone] > 0
        /\ \A zone \in DOMAIN zone_name_to_ids \ DOMAIN zone_bumps :
               RunZoneBumps(zones, zone) = 0
        /\ report # <<>> =>
               /\ report[1].zone_bumps = zone_bumps
               /\ report[1].spike_count = spike_count

\* a finished run of two zones whose polygons lie apart, each with bumps
C5_Witness ==
    /\ pc = "done"
    /\ TwoZonesSelected
    /\ Len(ann_log) = 2
    /\ ann_log[1].zone # ann_log[2].zone
    /\ BoxesApart(ann_log[1].poly, ann_log[2].poly)
    /\ DOMAIN report[1].zone_bumps = {Lower(zones[1]), Lower(zones[2])}
    /\ report[1].zone_bumps[Lower(zones[1])] # report[1].zone_bumps[Lower(zones[2])]
    /\ report[1].spike_count >= 3

AllMiss(k) == HitSet(ann_log[k].poly) = {}

MissesCounted(k) ==
    /\ ann_log[k].attempts - PrevAttempts(k) =
           Cardinality(ContainedSet(ann_log[k].poly))
    /\ ann_log[k].bumps = PrevBumps(k)

RunContinues ==
    /\ \A j \in DOMAIN stderr :
           stderr[j].kind = "error" => stderr[j] = Error("export_failed")
    /\ pc = "failed" => ann_idx > Len(annotations)

(***************************************************************************)
(* C6.  As claimed: for a sampled zone whose contained points all miss,    *)
(* each contained point is an attempt, no bump is placed, a zone-empty     *)
(* warning is recorded for the zone, and the run does not fail.            *)
(***************************************************************************)
C6_AllMissWarns ==
    \A k \in DOMAIN ann_log :
        AllMiss(k) =>
            /\ MissesCounted(k)
            /\ ann_log[k].warned
            /\ Warning("no_valid_points", ann_log[k].zone) \in Range(stderr)
            /\ RunContinues

(***************************************************************************)
(* C6, amended.  For a sampled zone whose contained points all miss, each  *)
(* contained point is an attempt, no bump is placed and the run does not   *)
(* fail; the zone-empty warning is recorded exactly when the zone has no   *)
(* contained sample point at all, and not when contained points exist and  *)
(* all of them miss.                                                       *)
(***************************************************************************)
C6_WarnsOnlyWithoutContained ==
    \A k \in DOMAIN ann_log :
        /\ ann_log[k].warned <=> ContainedSet(ann_log[k].poly) = {}
        /\ ann_log[k].warned =>
               Warning("no_valid_points", ann_log[k].zone) \in Range(stderr)
        /\ AllMiss(k) => (MissesCounted(k) /\ RunContinues)

\* a finished run in which one zone's contained points all missed without a
\* warning, and another zone placed bumps
C6_Witness ==
    /\ pc = "done"
    /\ \E k \in DOMAIN ann_log :
           /\ AllMiss(k)
           /\ ContainedSet(ann_log[k].poly) # {}
           /\ ~ann_log[k].warned
    /\ \E k \in DOMAIN ann_log : ~AllMiss(k)

\* the grid with n coordinates along x and m along y, x outermost
RowMajor(poly, n, m) ==
    [k \in 1..(n * m) |->
        << min_x(poly) + ((k - 1) \div m) * step,
           min_y(poly) + ((k - 1) % m) * step >>]

FloorCount(lo, hi) == (hi - lo) \div step

CeilCount(lo, hi) == CeilDiv(hi - lo, step)

(***************************************************************************)
(* C7.  As claimed: the grid of a polygon has floor((max - min) / step)    *)
(* coordinates per axis over the half-open range, in row-major order.      *)
(***************************************************************************)
C7_GridFloor ==
    \A k \in DOMAIN ann_log :
        LET poly == ann_log[k].poly
        IN  ann_log[k].candidates =
                RowMajor(poly, FloorCount(min_x(poly), max_x(poly)),
                         FloorCount(min_y(poly), max_y(poly)))

(***************************************************************************)
(* C7, amended.  The grid of a polygon has ceil((max - min) / step)        *)
(* coordinates per axis over the half-open range [min, max), the max edge  *)
(* never being a candidate, visited in row-major order; a side of 50 at    *)
(* step 5 gives 10 coordinates.                                            *)
(***************************************************************************)
C7_GridCeil ==
    /\ \A k \in DOMAIN ann_log :
           LET poly == ann_log[k].poly
               n == CeilCount(min_x(poly), max_x(poly))
               m == CeilCount(min_y(poly), max_y(poly))
           IN  /\ ann_log[k].candidates = RowMajor(poly, n, m)
               /\ \A j \in DOMAIN ann_log[k].candidates :
                      /\ min_x(poly) <= ann_log[k].candidates[j][1]
                      /\ ann_log[k].candidates[j][1] < max_x(poly)
                      /\ min_y(poly) <= ann_log[k].candidates[j][2]
                      /\ ann_log[k].candidates[j][2] < max_y(poly)
    /\ pc = "sample" =>
           /\ Len(grid_x) = CeilCount(min_x(path), max_x(path))
           /\ Len(grid_y) = CeilCount(min_y(path), max_y(path))
           /\ Len(Arange(min_x(path), min_x(path) + 50, step)) = 10
           /\ Len(candidates) <= Len(grid_x) * Len(grid_y)
           /\ candidates =
                  SubSeq(RowMajor(path, Len(grid_x), Len(grid_y)), 1, Len(candidates))

\* an annotation was sampled whose sides are no multiple of the step
C7_Witness ==
    \E k \in DOMAIN ann_log :
        LET poly == ann_log[k].poly
        IN  /\ (max_x(poly) - min_x(poly)) % step # 0
            /\ (max_y(poly) - min_y(poly)) % step # 0
            /\ Len(ann_log[k].candidates) = 4

InSomePolygon(loc) ==
    \E k \in DOMAIN ann_log : ContainsPoint(ann_log[k].poly, To2d(mesh, loc))

(***************************************************************************)
(* C8.  The mapping accuracy is 100 x (bumps whose location, taken back to *)
(* image space, lies inside at least one sampled zone polygon) / (total    *)
(* bumps), a bump counting when any polygon of any zone contains it,       *)
(* several polygons of one zone name included; 0 when no bump was placed.  *)
(***************************************************************************)
C8_AccuracyAnyPolygon ==
    MetricsDone =>
        LET inside == {i \in DOMAIN bump_locations : InSomePolygon(bump_locations[i])}
        IN  IF spike_count = 0 THEN RateIs(placement_accuracy, 0)
            ELSE /\ placement_accuracy[2] > 0
                 /\ placement_accuracy[1] * spike_count =
                        100 * Cardinality(inside) * placement_accuracy[2]

OtherDistances(i) ==
    {Dist2(bump_locations[i], bump_locations[j]) :
        j \in DOMAIN bump_locations \ {i}}

(***************************************************************************)
(* C9.  As claimed: the spacing samples are, for every bump, its minimum   *)
(* distance to every other bump; the average falls back to the step only   *)
(* with fewer than 2 bumps, and with 2 or more each bump gives one sample. *)
(***************************************************************************)
C9_SpacingAllBumps ==
    MetricsDone =>
        /\ spike_count >= 2 =>
               /\ avg_spacing.src = "mean"
               /\ Len(bump_spacing) = spike_count
               /\ \A i \in DOMAIN bump_spacing :
                      bump_spacing[i] = MinOf(OtherDistances(i))
        /\ avg_spacing.src = "step" => spike_count < 2

ApartDistances(i) == {d \in OtherDistances(i) : d > 0}

WithNeighbour == {i \in DOMAIN bump_locations : ApartDistances(i) # {}}

RECURSIVE NearestFrom(_)
NearestFrom(i) ==
    IF i > Len(bump_locations) THEN <<>>
    ELSE (IF i \in WithNeighbour THEN <<MinOf(ApartDistances(i))>> ELSE <<>>)
             \o NearestFrom(i + 1)

(***************************************************************************)
(* C9, amended.  The spacing samples are, for every bump that has another  *)
(* bump at a non-zero distance, its minimum non-zero distance to the other *)
(* bumps, in bump order; a bump whose other bumps all coincide with it     *)
(* gives no sample; the average falls back to the step exactly when there  *)
(* is no sample (fewer than 2 bumps, or all bumps at one location).        *)
(***************************************************************************)
C9_SpacingApartBumps ==
    MetricsDone =>
        /\ bump_spacing = NearestFrom(1)
        /\ Len(bump_spacing) = Cardinality(WithNeighbour)
        /\ Len(bump_spacing) <= spike_count
        /\ avg_spacing.src = "step" <=> WithNeighbour = {}
        /\ avg_spacing.src = "mean" => avg_spacing.n = Cardinality(WithNeighbour)
        /\ spike_count < 2 => avg_spacing.src = "step"

\* two bumps at one location: no sample, the average is the step
C9_Witness ==
    /\ pc = "done"
    /\ spike_count = 2
    /\ bump_locations[1] = bump_locations[2]
    /\ bump_spacing = <<>>
    /\ report[1].avg_spacing.src = "step"

\* the visited grid points that lie in their polygon and whose ray hits
VisitedHits ==
    SumOver([k \in DOMAIN ann_log |->
                Cardinality({j \in DOMAIN ann_log[k].candidates :
                    ann_log[k].candidates[j] \in HitSet(ann_log[k].poly)})],
            DOMAIN ann_log)
        + (IF pc = "sample"
           THEN Cardinality({j \in DOMAIN candidates : candidates[j] \in HitSet(path)})
           ELSE 0)

(***************************************************************************)
(* C10.  Each contained sample point whose ray has an intersection gets    *)
(* exactly one bump; the surface point is the intersection of greatest z   *)
(* on that ray; the bump's translation z is strictly above it, hence above *)
(* every intersection of the ray.                                          *)
(***************************************************************************)
C10_BumpAboveTopSurface ==
    Resolved /\ pc # "failed" =>
        /\ spike_count = VisitedHits
        /\ Len(spikes) = 1 + spike_count
        /\ Len(bump_locations) = spike_count
        /\ \A i \in DOMAIN bump_locations :
               LET bump == spikes[i + 1]
                   loc == bump_locations[i]
                   ray == Intersections(mesh, bump.translation[1], bump.translation[2])
               IN  /\ bump.piece = "bump"
                   /\ ray # <<>>
                   /\ loc \in Range(ray)
                   /\ \A j \in DOMAIN ray : ray[j][3] <= loc[3]
                   /\ bump.translation[3] > loc[3]
                   /\ \A j \in DOMAIN ray : bump.translation[3] > ray[j][3]

\* a bump was placed on a ray with three intersections, the highest of which
\* is neither the first nor the last returned
C10_Witness ==
    /\ spike_count >= 1
    /\ LET ray == Intersections(mesh, spikes[2].translation[1], spikes[2].translation[2])
       IN  /\ Len(ray) = 3
           /\ ray[1][3] < bump_locations[1][3]
           /\ ray[3][3] < bump_locations[1][3]

\* a request is being handled or was just answered
Handling == app_pc \in {"validate", "mapped", "ran", "responded"}

Responded == app_pc = "responded"

\* subprocess.run was called for the request
Started == script_result # "none"

StatusIn(lo, hi) == response # <<>> /\ response[1].code \in lo..hi

\* the form misses its areas, a foot that is left or right, or its size
InvalidForm ==
    \/ selected_html_values = <<>>
    \/ selected_foot \notin {"left", "right"}
    \/ selected_size = None

\* the whitelist of the selected foot, None included
SelectedWhitelist ==
    IF selected_foot = "left" THEN VALID_INTERNAL_ZONE_KEYS_LEFT
    ELSE VALID_INTERNAL_ZONE_KEYS_RIGHT

\* the selected foot has a whitelist and no area of the form is in it
NoAreaInWhitelist ==
    /\ SelectedWhitelist # <<>>
    /\ \A v \in Range(selected_html_values) :
           Upper(v) \notin SelectedWhitelist[1]

InvalidRequest == InvalidForm \/ NoAreaInWhitelist

\* the zone list on the command line
ZonesPassed == command[1].zones

DuplicateFree(seq) ==
    \A i, j \in DOMAIN seq : i # j => seq[i] # seq[j]

\* once started, a non-zero exit or a missing output after a zero exit is
\* answered with a 5xx status
FailureIsServerError ==
    (/\ Responded
     /\ Started
     /\ \/ script_result = "nonzero"
        \/ script_result = "zero" /\ selected_foot \notin output_files)
    => StatusIn(500, 599)

\* a success is returned only after a zero exit with the expected output in
\* place, for a non-empty, duplicate-free, whitelisted zone list
SuccessIsEarned ==
    (response # <<>> /\ response[1].status = "success")
    => /\ script_result = "zero"
       /\ selected_foot \in output_files
       /\ command # <<>>
       /\ ZonesPassed # <<>>
       /\ DuplicateFree(ZonesPassed)
       /\ Range(ZonesPassed) \subseteq SelectedWhitelist[1]

\* The statement of C11 as written: an invalid request is answered with a
\* 4xx status whatever the server's configuration.
C11_InvalidRequestAlways4xx ==
    /\ (Handling /\ InvalidRequest) => (~Started /\ command = <<>>)
    /\ (Responded /\ InvalidRequest) => StatusIn(400, 499)
    /\ FailureIsServerError
    /\ SuccessIsEarned

(***************************************************************************)
(* C11.  At POST /generate_slippers, when both whitelists were loaded at   *)
(* startup: a request with no areas, a foot other than left or right, no   *)
(* size, or no area in the selected foot's whitelist is answered with a    *)
(* 4xx status.  In every configuration such a request never starts the     *)
(* pipeline subprocess; once started, a non-zero exit or a missing output  *)
(* file after a zero exit is answered with a 5xx status; and a success is  *)
(* returned only when the pipeline exited zero and the expected output     *)
(* file exists, with a zone list on the command line that is non-empty,    *)
(* duplicate-free and contained in the whitelist.                          *)
(***************************************************************************)
C11_HttpBoundary ==
    /\ (Handling /\ InvalidRequest) => (~Started /\ command = <<>>)
    /\ (Responded /\ ConfigLoaded /\ InvalidRequest) => StatusIn(400, 499)
    /\ FailureIsServerError
    /\ SuccessIsEarned

\* a success for a form that named the same zone twice
C11_Witness ==
    /\ Responded
    /\ response[1].status = "success"
    /\ selected_html_values = <<"heart", "HEART">>
    /\ ZonesPassed = <<"HEART">>

\* an invalid request answered 400, and a started script answered 500
C11_Rejected == Responded /\ ConfigLoaded /\ InvalidRequest /\ NoAreaInWhitelist /\ ~InvalidForm

C11_Failed == Responded /\ Started /\ script_result = "zero" /\ selected_foot \notin output_files

\* the placement state exists: zone resolution ran and was not fatal
PlacementStarted == Resolved /\ Error("no_zone_matched") \notin Range(stderr)

CountersAgree ==
    /\ spike_count = ray_casting_successes
    /\ spike_count = Len(positional_errors)
    /\ spike_count = Len(bump_locations)
    /\ spike_count = Len(spikes) - 1
    /\ spike_count = SumOver(zone_bumps, DOMAIN zone_bumps)
    /\ ray_casting_successes <= ray_casting_attempts

\* the pieces handed to the merge: the sole, then one bump per success
MergeInput ==
    /\ spikes[1] = SoleMesh
    /\ \A i \in 2..Len(spikes) : spikes[i].piece = "bump"
    /\ Len(spikes) = 1 + ray_casting_successes

\* a step that processes a sample point whose ray misses
MissStep ==
    /\ ray_casting_attempts' = ray_casting_attempts + 1
    /\ Intersections(mesh, RayOf(CurPoint)[1], RayOf(CurPoint)[2]) = <<>>

(***************************************************************************)
(* C12.  Counter consistency: after every sample point, hit or miss,       *)
(* spike_count = ray_casting_successes = len(positional_errors) =          *)
(* len(bump_locations) = len(spikes) - 1 = the sum of the zone_bumps       *)
(* values; a ray miss changes ray_casting_attempts only and leaves all of  *)
(* those unchanged; so the merge at the end of the run concatenates the    *)
(* sole mesh plus one piece per successful ray cast.                       *)
(***************************************************************************)
C12_CounterConsistency ==
    /\ [](PlacementStarted => (CountersAgree /\ MergeInput))
    /\ [][MissStep =>
             UNCHANGED <<spike_count, ray_casting_successes, positional_errors,
                         bump_locations, spikes, zone_bumps>>]_vars

\* the merge is reached after hits in two zones and at least one miss
C12_Witness ==
    /\ pc = "export_ply"
    /\ ray_casting_successes >= 2
    /\ ray_casting_attempts > ray_casting_successes
    /\ Cardinality(DOMAIN zone_bumps) = 2
    /\ Len(spikes) = 1 + ray_casting_successes

====
